---- MODULE Spec2Model ----
(***************************************************************************)
(* The FamPlex ontology graph (famplex/graph.py): construction of the      *)
(* adjacency maps, the root set and the root mapping from the relation     *)
(* table, and the queries served from them.                                *)
(*                                                                         *)
(* Strings that the code orders or lower-cases (namespaces and ids) are    *)
(* sequences of character codes, so that str.lower() and the comparison    *)
(* of strings are computed rather than assumed.  Relation kinds, which the *)
(* code only tests for membership, are TLA+ strings.  A term is a pair     *)
(* <<namespace, id>>, an edge a triple <<namespace, id, relation>> and a   *)
(* row of relations.csv a 5-tuple <<ns1, id1, relation, ns2, id2>>.        *)
(***************************************************************************)
EXTENDS Naturals, Integers, Sequences, FiniteSets, TLC

VARIABLES
    relations,            \* rows returned by load_relations()
    equivalence_rows,     \* rows returned by load_equivalences()
    entities,             \* ids returned by load_entities()
    self_root_classes,        \* FamplexGraph.root_classes
    self_root_class_mapping,  \* FamplexGraph._root_class_mapping
    self_graph,               \* FamplexGraph._graph
    self_reverse_graph,       \* FamplexGraph._reverse_graph
    self_equivalences,        \* FamplexGraph._equivalences
    self_reverse_equivalences,  \* FamplexGraph._reverse_equivalences
    pc,                   \* "load" before FamplexGraph() has run, "ready" after,
                          \* "failed" when it raised and left no graph
    call,                 \* the last query: [op, args]
    result,               \* what the last query did: [exc, value]
    walk                  \* a run of _traverse between two of its steps

vars == <<relations, equivalence_rows, entities, self_root_classes,
          self_root_class_mapping, self_graph, self_reverse_graph,
          self_equivalences, self_reverse_equivalences, pc, call, result, walk>>

tables == <<relations, equivalence_rows, entities>>
fields == <<self_root_classes, self_root_class_mapping, self_graph,
            self_reverse_graph, self_equivalences, self_reverse_equivalences>>

(***************************************************************************)
(* Bounds of the explored inputs.                                          *)
(***************************************************************************)
MaxRows == 2
MaxEqRelRows == 1
MaxEquivRows == 2
MaxEntities == 1
MaxBfsRows == 4
MaxAliasRows == 1
MaxHeld == 2

(***************************************************************************)
(* The strings of the explored inputs, as character codes.                 *)
(***************************************************************************)
FPLX == <<70, 80, 76, 88>>
HGNC == <<72, 71, 78, 67>>
MESH == <<77, 69, 83, 72>>
BEL == <<66, 69, 76>>
id_B == <<66>>
id_b == <<98>>
id_a == <<97>>
id_D1 == <<68, 49>>
id_R == <<82>>
id_c == <<99>>
id_d == <<100>>

Kinds == {"isa", "partof"}
Terms == {<<FPLX, id_B>>, <<FPLX, id_b>>, <<HGNC, id_a>>}
FplxIds == {id_B, id_b}
ExternalTerms == {<<MESH, id_D1>>, <<BEL, id_a>>}
RelationRows == {<<s[1], s[2], k, t[1], t[2]>> : s \in Terms, k \in Kinds, t \in Terms}
EqRelationRows == {<<HGNC, id_a, "isa", FPLX, id_B>>, <<FPLX, id_B, "partof", FPLX, id_b>>}
EquivalenceRows == {<<x[1], x[2], f>> : x \in ExternalTerms, f \in FplxIds}
\* a family R with the members a and B, which have members of their own:
\* d under a and under B, c under B
BfsTerms == {<<FPLX, id_R>>, <<FPLX, id_a>>, <<FPLX, id_B>>, <<HGNC, id_c>>, <<HGNC, id_d>>}
BfsRows == {<<FPLX, id_a, "isa", FPLX, id_R>>,
            <<FPLX, id_B, "isa", FPLX, id_R>>,
            <<HGNC, id_d, "isa", FPLX, id_a>>,
            <<HGNC, id_c, "isa", FPLX, id_B>>,
            <<HGNC, id_d, "partof", FPLX, id_B>>}
\* rows of relations.csv that do not have five columns: one column short,
\* one column over, and the row csv.reader gives for a blank line
MalformedRows == {<<HGNC, id_a, "isa", FPLX>>,
                  <<FPLX, id_B, "partof", FPLX, id_b, id_a>>,
                  <<>>}

\* relation_types=None, kept a set so that it compares with the kind sets
None == {"None"}
KindArgs == (SUBSET Kinds) \cup {None}
\* namespaces=None, kept a set of strings so that it compares with the
\* namespace containers
NoneNs == {<<78, 111, 110, 101>>}
NamespaceArgs == (SUBSET {MESH, BEL}) \cup {NoneNs}

Range(s) == {s[i] : i \in DOMAIN s}
SeqsUpTo(S, n) == UNION {[1..m -> S] : m \in 0..n}
\* the orders in which iterating over a Python set can deliver its elements
SetOrders(S) == {s \in [1..Cardinality(S) -> S] : \A i, j \in DOMAIN s : s[i] = s[j] => i = j}

(***************************************************************************)
(* Python built-ins the constructor relies on.                             *)
(***************************************************************************)
\* str.lower() on ASCII: 'A'..'Z' (65..90) map to 'a'..'z'
lower(s) == [i \in DOMAIN s |-> IF s[i] \in 65..90 THEN s[i] + 32 ELSE s[i]]

\* s < t for strings: lexicographic by code point, a proper prefix is smaller
RECURSIVE StrLess(_, _)
StrLess(s, t) ==
    IF t = <<>> THEN FALSE
    ELSE IF s = <<>> THEN TRUE
    ELSE IF Head(s) # Head(t) THEN Head(s) < Head(t)
    ELSE StrLess(Tail(s), Tail(t))

\* k1 < k2 for tuples of strings
RECURSIVE TupleLess(_, _)
TupleLess(k1, k2) ==
    IF k2 = <<>> THEN FALSE
    ELSE IF k1 = <<>> THEN TRUE
    ELSE IF Head(k1) # Head(k2) THEN StrLess(Head(k1), Head(k2))
    ELSE TupleLess(Tail(k1), Tail(k2))

\* sorted(seq, key=...), keys[i] being the key of seq[i]: ascending by key,
\* elements with equal keys keep their order
sorted(seq, keys) ==
    LET n == Len(seq)
        pos(i) == 1 + Cardinality({j \in 1..n :
                        \/ TupleLess(keys[j], keys[i])
                        \/ keys[j] = keys[i] /\ j < i})
    IN [p \in 1..n |-> seq[CHOOSE i \in 1..n : pos(i) = p]]

\* mutant of SortedByNsId: the key is not lower-cased
SortedByNsId_CaseSensitive(seq) == sorted(seq, [i \in DOMAIN seq |-> <<seq[i][1], seq[i][2]>>])

\* sorted(seq, key=lambda x: (x[0].lower(), x[1].lower()))
SortedByNsId(seq) == sorted(seq, [i \in DOMAIN seq |-> <<lower(seq[i][1]), lower(seq[i][2])>>])
\* sorted(seq, key=lambda x: x[1].lower())
SortedById(seq) == sorted(seq, [i \in DOMAIN seq |-> <<lower(seq[i][2])>>])

(***************************************************************************)
(* FamplexGraph._traverse: the nodes it yields, in order.                  *)
(***************************************************************************)
\* mutant of EnqueueChildren: the queue is used as a stack
RECURSIVE EnqueueChildren_Stack(_, _, _, _)
EnqueueChildren_Stack(children, relation_types, queue, visited) ==
    IF children = <<>> THEN [queue |-> queue, visited |-> visited]
    ELSE LET c == Head(children)
             node == <<c[1], c[2]>>
         IN IF node \notin visited /\ c[3] \in relation_types
            THEN EnqueueChildren_Stack(Tail(children), relation_types,
                                       Append(queue, node), visited \cup {node})
            ELSE EnqueueChildren_Stack(Tail(children), relation_types, queue, visited)

RECURSIVE EnqueueChildren(_, _, _, _)
EnqueueChildren(children, relation_types, queue, visited) ==
    IF children = <<>> THEN [queue |-> queue, visited |-> visited]
    ELSE LET c == Head(children)
             node == <<c[1], c[2]>>
         IN IF node \notin visited /\ c[3] \in relation_types
            THEN EnqueueChildren(Tail(children), relation_types,
                                 <<node>> \o queue, visited \cup {node})
            ELSE EnqueueChildren(Tail(children), relation_types, queue, visited)

RECURSIVE TraverseLoop(_, _, _, _, _)
TraverseLoop(graph, relation_types, queue, visited, yielded) ==
    IF queue = <<>> THEN yielded
    ELSE LET node == queue[Len(queue)]
             popped == SubSeq(queue, 1, Len(queue) - 1)
             children == IF node \in DOMAIN graph THEN graph[node] ELSE <<>>
             next == EnqueueChildren(children, relation_types, popped, visited)
         IN TraverseLoop(graph, relation_types, next.queue, next.visited,
                         Append(yielded, node))

traverse(graph, source, relation_types) ==
    TraverseLoop(graph, relation_types, <<source>>, {source}, <<>>)

(***************************************************************************)
(* FamplexGraph._traverse one turn of its loop at a time: the queue, the   *)
(* visited set, the nodes yielded so far and, in enqueued, every node in   *)
(* the order in which it was put on the queue.                             *)
(***************************************************************************)
NoWalk == [active |-> FALSE, graph |-> <<>>, relation_types |-> {},
           queue |-> <<>>, visited |-> {}, yielded |-> <<>>, enqueued |-> <<>>]

\* visited = {source}; queue = deque([source])
WalkFrom(graph, source, relation_types) ==
    [active |-> TRUE, graph |-> graph, relation_types |-> relation_types,
     queue |-> <<source>>, visited |-> {source}, yielded |-> <<>>,
     enqueued |-> <<source>>]

\* mutant of WalkTurn: the nodes put on the queue are not kept as visited
WalkTurn_NoMark(w) ==
    LET node == w.queue[Len(w.queue)]
        popped == SubSeq(w.queue, 1, Len(w.queue) - 1)
        children == IF node \in DOMAIN w.graph THEN w.graph[node] ELSE <<>>
        next == EnqueueChildren(children, w.relation_types, popped, w.visited)
        added == Len(next.queue) - Len(popped)
    IN [w EXCEPT !.queue = next.queue,
                 !.yielded = Append(w.yielded, node),
                 !.enqueued = w.enqueued \o
                     [i \in 1..added |-> next.queue[added + 1 - i]]]

\* one turn of the while loop: pop a node, enqueue its unvisited children
\* of the wanted kinds, yield the node
WalkTurn(w) ==
    LET node == w.queue[Len(w.queue)]
        popped == SubSeq(w.queue, 1, Len(w.queue) - 1)
        children == IF node \in DOMAIN w.graph THEN w.graph[node] ELSE <<>>
        next == EnqueueChildren(children, w.relation_types, popped, w.visited)
        added == Len(next.queue) - Len(popped)
    IN [w EXCEPT !.queue = next.queue,
                 !.visited = next.visited,
                 !.yielded = Append(w.yielded, node),
                 !.enqueued = w.enqueued \o
                     [i \in 1..added |-> next.queue[added + 1 - i]]]

(***************************************************************************)
(* FamplexGraph.__init__                                                   *)
(***************************************************************************)
\* mutant of left_set: only the sources of isa rows are recorded
left_set_IsaOnly(rows) == {<<r[1], r[2]>> : r \in {x \in Range(rows) : x[3] = "isa"}}

left_set(rows) == {<<r[1], r[2]>> : r \in Range(rows)}
right_set(rows) == {<<r[4], r[5]>> : r \in Range(rows)}

\* graph[(namespace1, id1)].append((namespace2, id2, relation)), then sorted
ForwardGraph(rows) ==
    [n \in left_set(rows) |->
        LET From(r) == <<r[1], r[2]>> = n
            mine == SelectSeq(rows, From)
        IN SortedByNsId([i \in DOMAIN mine |-> <<mine[i][4], mine[i][5], mine[i][3]>>])]

\* mutant of ReverseGraph: only isa rows are mirrored
ReverseGraph_IsaOnly(rows) ==
    [n \in right_set(rows) |->
        LET Into(r) == <<r[4], r[5]>> = n /\ r[3] = "isa"
            mine == SelectSeq(rows, Into)
        IN SortedByNsId([i \in DOMAIN mine |-> <<mine[i][1], mine[i][2], mine[i][3]>>])]

\* reverse_graph[(namespace2, id2)].append((namespace1, id1, relation)), then sorted
ReverseGraph(rows) ==
    [n \in right_set(rows) |->
        LET Into(r) == <<r[4], r[5]>> = n
            mine == SelectSeq(rows, Into)
        IN SortedByNsId([i \in DOMAIN mine |-> <<mine[i][1], mine[i][2], mine[i][3]>>])]

\* mutant of RootClassMapping: each term keeps a single root, the last one written
RootClassMapping_SingleRoot(reverse_graph, root_classes) ==
    LET below(r) == Range(traverse(reverse_graph, r, {"isa", "partof"}))
    IN [n \in UNION {below(r) : r \in Range(root_classes)} |->
           LET Above(r) == n \in below(r)
               above == SelectSeq(root_classes, Above)
           IN <<above[Len(above)]>>]

\* mutant of RootClassMapping: a root is not recorded as lying under itself
RootClassMapping_SkipRoot(reverse_graph, root_classes) ==
    LET below(r) == Range(Tail(traverse(reverse_graph, r, {"isa", "partof"})))
    IN [n \in UNION {below(r) : r \in Range(root_classes)} |->
           LET Above(r) == n \in below(r)
           IN SortedByNsId(SelectSeq(root_classes, Above))]

\* mutant of RootClassMapping: the roots of a term stay in the order of root_classes
RootClassMapping_Unsorted(reverse_graph, root_classes) ==
    LET below(r) == Range(traverse(reverse_graph, r, {"isa", "partof"}))
    IN [n \in UNION {below(r) : r \in Range(root_classes)} |->
           LET Above(r) == n \in below(r)
           IN SelectSeq(root_classes, Above)]

\* mutant of RootClassMapping: every term below some root is given all roots
RootClassMapping_AllRoots(reverse_graph, root_classes) ==
    LET below(r) == Range(traverse(reverse_graph, r, {"isa", "partof"}))
    IN [n \in UNION {below(r) : r \in Range(root_classes)} |->
           SortedByNsId(root_classes)]

\* root_class_mapping[node].append(entry) for every node below entry, then sorted
RootClassMapping(reverse_graph, root_classes) ==
    LET below(r) == Range(traverse(reverse_graph, r, {"isa", "partof"}))
    IN [n \in UNION {below(r) : r \in Range(root_classes)} |->
           LET Above(r) == n \in below(r)
           IN SortedByNsId(SelectSeq(root_classes, Above))]

\* mutant of EquivalenceMap: a later row of an id replaces the earlier ones
EquivalenceMap_LastOnly(rows) ==
    [f \in {r[3] : r \in Range(rows)} |->
        LET For(r) == r[3] = f
            mine == SelectSeq(rows, For)
        IN <<<<mine[Len(mine)][1], mine[Len(mine)][2]>>>>]

\* equivalences[fplx_id].append((ns, id_))
EquivalenceMap(rows) ==
    [f \in {r[3] : r \in Range(rows)} |->
        LET For(r) == r[3] = f
            mine == SelectSeq(rows, For)
        IN [i \in DOMAIN mine |-> <<mine[i][1], mine[i][2]>>]]

\* the reverse of the equivalence map: (ns, id_) -> the ids of its rows, in
\* the order of the rows
ReverseEquivalenceMap(rows) ==
    [x \in {<<r[1], r[2]>> : r \in Range(rows)} |->
        LET For(r) == <<r[1], r[2]>> = x
            mine == SelectSeq(rows, For)
        IN [i \in DOMAIN mine |-> mine[i][3]]]

Empty == [x \in {} |-> <<>>]
NoCall == [op |-> "", args |-> <<>>]
NoResult == [exc |-> "", value |-> <<>>]

\* for namespace1, id1, relation, namespace2, id2 in relations: a row that
\* does not have five columns cannot be unpacked and raises ValueError
Unpacks(rows) == \A r \in Range(rows) : Len(r) = 5

Construct ==
    /\ pc = "load"
    /\ IF Unpacks(relations)
       THEN /\ \E order \in SetOrders(right_set(relations) \ left_set(relations)) :
                  /\ self_root_classes' = SortedById(order)
                  /\ self_root_class_mapping' =
                         RootClassMapping(ReverseGraph(relations), SortedById(order))
            /\ self_graph' = ForwardGraph(relations)
            /\ self_reverse_graph' = ReverseGraph(relations)
            /\ self_equivalences' = EquivalenceMap(equivalence_rows)
            /\ self_reverse_equivalences' = ReverseEquivalenceMap(equivalence_rows)
            /\ pc' = "ready"
       ELSE /\ pc' = "failed"
            /\ UNCHANGED fields
    /\ UNCHANGED <<tables, call, result, walk>>

(***************************************************************************)
(* The queries.  Each operator gives what the method does on the           *)
(* constructed graph: the value it returns, or the exception it raises.    *)
(***************************************************************************)
Return(v) == [exc |-> "", value |-> v]
Raise(e) == [exc |-> e, value |-> <<>>]

\* mutant of Resolve: no filter stands for isa alone
Resolve_IsaDefault(relation_types) ==
    IF relation_types = None THEN {"isa"} ELSE relation_types

\* if relation_types is None: relation_types = ['isa', 'partof']
Resolve(relation_types) ==
    IF relation_types = None THEN {"isa", "partof"} ELSE relation_types

\* [(ns2, id2) for ns2, id2, rel in edges if rel in relation_types]
EdgeTerms(edges, relation_types) ==
    LET Wanted(e) == e[3] \in relation_types
        kept == SelectSeq(edges, Wanted)
    IN [i \in DOMAIN kept |-> <<kept[i][1], kept[i][2]>>]

in_famplex(t) == t \in DOMAIN self_root_class_mapping

\* mutant of parent_terms: a term without outgoing edges is always refused
parent_terms_Strict(t, relation_types) ==
    IF t \notin DOMAIN self_graph
    THEN Raise("ValueError")
    ELSE Return(EdgeTerms(self_graph[t], Resolve(relation_types)))

parent_terms(t, relation_types) ==
    IF t \notin DOMAIN self_graph
    THEN IF t \in Range(self_root_classes) THEN Return(<<>>) ELSE Raise("ValueError")
    ELSE Return(EdgeTerms(self_graph[t], Resolve(relation_types)))

\* mutant of child_terms: an absent term has no children instead of failing
child_terms_Lenient(t, relation_types) ==
    IF t \notin DOMAIN self_reverse_graph
    THEN Return(<<>>)
    ELSE Return(EdgeTerms(self_reverse_graph[t], Resolve(relation_types)))

child_terms(t, relation_types) ==
    IF t \notin DOMAIN self_reverse_graph
    THEN IF t \in DOMAIN self_graph THEN Return(<<>>) ELSE Raise("ValueError")
    ELSE Return(EdgeTerms(self_reverse_graph[t], Resolve(relation_types)))

root_terms(t) ==
    IF t \notin DOMAIN self_root_class_mapping THEN Raise("ValueError")
    ELSE Return(self_root_class_mapping[t])

\* mutant of ancestral_terms: the source of the traversal is not dropped
ancestral_terms_KeepsSource(t, relation_types) ==
    IF ~in_famplex(t) THEN Raise("ValueError")
    ELSE Return(traverse(self_graph, t, Resolve(relation_types)))

ancestral_terms(t, relation_types) ==
    IF ~in_famplex(t) THEN Raise("ValueError")
    ELSE Return(Tail(traverse(self_graph, t, Resolve(relation_types))))

\* mutant of descendant_terms: only the direct children are listed
descendant_terms_Direct(t, relation_types) ==
    IF ~in_famplex(t) THEN Raise("ValueError")
    ELSE IF t \in DOMAIN self_reverse_graph
    THEN Return(EdgeTerms(self_reverse_graph[t], Resolve(relation_types)))
    ELSE Return(<<>>)

descendant_terms(t, relation_types) ==
    IF ~in_famplex(t) THEN Raise("ValueError")
    ELSE Return(Tail(traverse(self_reverse_graph, t, Resolve(relation_types))))

\* mutant of individual_members: the descendants are not filtered for leaves
individual_members_AllBelow(t, relation_types) ==
    LET below == descendant_terms(t, Resolve(relation_types))
    IN IF below.exc # "" THEN below ELSE Return(SortedByNsId(below.value))

\* mutant of individual_members: the members stay in the order of the traversal
individual_members_Unsorted(t, relation_types) ==
    LET below == descendant_terms(t, Resolve(relation_types))
        Childless(d) == child_terms(d, Resolve(relation_types)).value = <<>>
    IN IF below.exc # "" THEN below ELSE Return(SelectSeq(below.value, Childless))

individual_members(t, relation_types) ==
    LET below == descendant_terms(t, Resolve(relation_types))
        Fails(d) == child_terms(d, Resolve(relation_types)).exc # ""
        Childless(d) == child_terms(d, Resolve(relation_types)).value = <<>>
    IN IF below.exc # "" THEN below
       ELSE IF \E i \in DOMAIN below.value : Fails(below.value[i])
       THEN Raise("ValueError")
       ELSE Return(SortedByNsId(SelectSeq(below.value, Childless)))

\* mutant of rel: the traversal runs without looking the terms up first
rel_NoLookup(t1, t2, relation_types) ==
    t2 \in Range(traverse(self_graph, t1, relation_types))

\* mutant of rel: a term is not counted as related to itself
rel_Proper(t1, t2, relation_types) ==
    IF t1 \notin DOMAIN self_root_class_mapping \/ t2 \notin DOMAIN self_root_class_mapping
    THEN FALSE
    ELSE IF Range(self_root_class_mapping[t1]) \cap Range(self_root_class_mapping[t2]) # {}
    THEN t2 \in Range(Tail(traverse(self_graph, t1, relation_types)))
    ELSE FALSE

rel(t1, t2, relation_types) ==
    IF t1 \notin DOMAIN self_root_class_mapping \/ t2 \notin DOMAIN self_root_class_mapping
    THEN FALSE
    ELSE IF Range(self_root_class_mapping[t1]) \cap Range(self_root_class_mapping[t2]) # {}
    THEN t2 \in Range(traverse(self_graph, t1, relation_types))
    ELSE FALSE

\* mutant of isa: the wrong relation kind is passed on
isa_AsPartof(t1, t2) == rel(t1, t2, {"partof"})

isa(t1, t2) == rel(t1, t2, {"isa"})
partof(t1, t2) == rel(t1, t2, {"partof"})
\* mutant of refinement_of: partof edges are left out
refinement_of_IsaOnly(t1, t2) == rel(t1, t2, {"isa"})

refinement_of(t1, t2) == rel(t1, t2, {"isa", "partof"})

\* The recursion of dict_representation has no guard.  A descent deeper than
\* the number of terms of the graph has met some term twice and so never
\* ends: Python stops it with RecursionError.
AllNodes == DOMAIN self_graph \cup DOMAIN self_reverse_graph

\* mutant of DictRepresentation: a descent that has met a term twice is cut
\* off instead of going on
RECURSIVE DictRepresentation_Guarded(_, _)
DictRepresentation_Guarded(t, depth) ==
    IF depth > Cardinality(AllNodes) THEN Return(<<t, <<>>>>)
    ELSE IF t \notin DOMAIN self_reverse_graph \/ self_reverse_graph[t] = <<>>
    THEN IF t \in DOMAIN self_graph THEN Return(<<t, <<>>>>) ELSE Raise("ValueError")
    ELSE LET edges == self_reverse_graph[t]
             sub == [i \in DOMAIN edges |->
                        DictRepresentation_Guarded(<<edges[i][1], edges[i][2]>>, depth + 1)]
         IN Return(<<t, [i \in DOMAIN edges |-> <<sub[i].value, edges[i][3]>>]>>)

\* mutant of DictRepresentation: the children are listed but not expanded
DictRepresentation_Flat(t, depth) ==
    IF t \notin DOMAIN self_reverse_graph \/ self_reverse_graph[t] = <<>>
    THEN IF t \in DOMAIN self_graph THEN Return(<<t, <<>>>>) ELSE Raise("ValueError")
    ELSE LET edges == self_reverse_graph[t]
         IN Return(<<t, [i \in DOMAIN edges |->
                            <<<<<<edges[i][1], edges[i][2]>>, <<>>>>, edges[i][3]>>]>>)

RECURSIVE DictRepresentation(_, _)
DictRepresentation(t, depth) ==
    IF depth > Cardinality(AllNodes) THEN Raise("RecursionError")
    ELSE IF t \notin DOMAIN self_reverse_graph \/ self_reverse_graph[t] = <<>>
    THEN IF t \in DOMAIN self_graph THEN Return(<<t, <<>>>>) ELSE Raise("ValueError")
    ELSE LET edges == self_reverse_graph[t]
             sub == [i \in DOMAIN edges |->
                        DictRepresentation(<<edges[i][1], edges[i][2]>>, depth + 1)]
         IN IF \E i \in DOMAIN sub : sub[i].exc # ""
            THEN sub[CHOOSE i \in DOMAIN sub :
                        sub[i].exc # "" /\ \A j \in 1..(i - 1) : sub[j].exc = ""]
            ELSE Return(<<t, [i \in DOMAIN edges |-> <<sub[i].value, edges[i][3]>>]>>)

\* {(namespace, id_): [(dict_representation(child), relation), ...]} as the
\* pair <<term, <<<<nested, relation>>, ...>>>>
dict_representation(t) == DictRepresentation(t, 0)

equivalences(fplx_id) ==
    IF fplx_id \notin DOMAIN self_equivalences THEN Raise("ValueError")
    ELSE Return(self_equivalences[fplx_id])

\* mutant of equivalences_in: the namespaces are not looked at
equivalences_in_Unfiltered(fplx_id, namespaces) == equivalences(fplx_id)

\* api.equivalences: the equivalences of an id, restricted to namespaces
equivalences_in(fplx_id, namespaces) ==
    LET equivs == equivalences(fplx_id)
        Wanted(e) == e[1] \in namespaces
    IN IF equivs.exc # "" THEN equivs
       ELSE IF namespaces = NoneNs THEN equivs
       ELSE Return(SelectSeq(equivs.value, Wanted))

\* the ids equivalent to an external term; none is no failure
reverse_equivalences(t) ==
    IF t \in DOMAIN self_reverse_equivalences
    THEN Return(self_reverse_equivalences[t])
    ELSE Return(<<>>)

\* mutant of Query: the forward adjacency answers a lookup as a defaultdict
\* does, by storing an empty list under a key it does not have
Query_Inserting(op, args, res) ==
    /\ pc = "ready"
    /\ call = NoCall
    /\ call' = [op |-> op, args |-> args]
    /\ result' = res
    /\ self_graph' =
          IF args # <<>> /\ args[1] \notin DOMAIN self_graph
          THEN [n \in DOMAIN self_graph \cup {args[1]} |->
                   IF n \in DOMAIN self_graph THEN self_graph[n] ELSE <<>>]
          ELSE self_graph
    /\ UNCHANGED <<tables, self_root_classes, self_root_class_mapping,
                   self_reverse_graph, self_equivalences, self_reverse_equivalences,
                   pc, walk>>

\* A caller makes a query on the constructed graph and holds its outcome
Query(op, args, res) ==
    /\ pc = "ready"
    /\ call = NoCall
    /\ call' = [op |-> op, args |-> args]
    /\ result' = res
    /\ UNCHANGED <<tables, fields, pc, walk>>

InFamplex(t) == Query("in_famplex", <<t>>, Return(in_famplex(t)))
ParentTerms(t, k) == Query("parent_terms", <<t, k>>, parent_terms(t, k))
ChildTerms(t, k) == Query("child_terms", <<t, k>>, child_terms(t, k))
RootTerms(t) == Query("root_terms", <<t>>, root_terms(t))
AncestralTerms(t, k) == Query("ancestral_terms", <<t, k>>, ancestral_terms(t, k))
DescendantTerms(t, k) == Query("descendant_terms", <<t, k>>, descendant_terms(t, k))
IndividualMembers(t, k) == Query("individual_members", <<t, k>>, individual_members(t, k))
Isa(t1, t2) == Query("isa", <<t1, t2>>, Return(isa(t1, t2)))
Partof(t1, t2) == Query("partof", <<t1, t2>>, Return(partof(t1, t2)))
RefinementOf(t1, t2) == Query("refinement_of", <<t1, t2>>, Return(refinement_of(t1, t2)))
DictRepresentationOf(t) == Query("dict_representation", <<t>>, dict_representation(t))
Equivalences(f) == Query("equivalences", <<f>>, equivalences(f))
EquivalencesIn(f, n) == Query("equivalences_in", <<f, n>>, equivalences_in(f, n))
ReverseEquivalences(t) == Query("reverse_equivalences", <<t>>, reverse_equivalences(t))
AllRootTerms == Query("all_root_terms", <<>>, Return(self_root_classes))

\* a method starts a traversal of one of the two adjacency maps
StartWalk(source, relation_types, up) ==
    /\ pc = "ready"
    /\ call = NoCall
    /\ ~walk.active
    /\ walk' = WalkFrom(IF up THEN self_graph ELSE self_reverse_graph,
                        source, relation_types)
    /\ UNCHANGED <<tables, fields, pc, call, result>>

\* while queue: ...
StepWalk ==
    /\ walk.active
    /\ walk.queue # <<>>
    /\ walk' = WalkTurn(walk)
    /\ UNCHANGED <<tables, fields, pc, call, result>>

\* the queue is empty: the generator is exhausted
EndWalk ==
    /\ walk.active
    /\ walk.queue = <<>>
    /\ walk' = NoWalk
    /\ UNCHANGED <<tables, fields, pc, call, result>>

\* The caller is done with the outcome; the graph is ready for the next query
Forget ==
    /\ pc = "ready"
    /\ call # NoCall
    /\ call' = NoCall
    /\ result' = NoResult
    /\ UNCHANGED <<tables, fields, pc, walk>>

\* the methods whose outcome is a list the caller may go on to change
HandedOut == {"root_terms", "equivalences", "all_root_terms", "parent_terms", "child_terms"}

\* what a caller does to a list it holds: lst.append(x), del lst[0],
\* lst.reverse()
Mutations(lst) ==
    {Append(lst, <<MESH, id_D1>>) : i \in {1} \cap (1..(MaxHeld - Len(lst)))}
        \cup {Tail(lst) : i \in {1} \cap (1..Len(lst))}
        \cup {[i \in DOMAIN lst |-> lst[Len(lst) + 1 - i]]}

\* The caller changes, in place, the list a query handed out.  root_terms,
\* equivalences and all_root_terms return the very list the graph holds
\* ("return roots", "return equiv", "return _famplex_graph.root_classes"),
\* so the change is a change of that field; parent_terms and child_terms
\* return a list built by a comprehension, which the graph does not hold.
CallerMutates ==
    /\ pc = "ready"
    /\ call.op \in HandedOut
    /\ result.exc = ""
    /\ \E new \in Mutations(result.value) :
          /\ call' = [op |-> "mutate", args |-> <<call.op, call.args, result.value>>]
          /\ result' = Return(new)
          /\ self_root_class_mapping' =
                IF call.op = "root_terms"
                THEN [self_root_class_mapping EXCEPT ![call.args[1]] = new]
                ELSE self_root_class_mapping
          /\ self_equivalences' =
                IF call.op = "equivalences"
                THEN [self_equivalences EXCEPT ![call.args[1]] = new]
                ELSE self_equivalences
          /\ self_root_classes' =
                IF call.op = "all_root_terms" THEN new ELSE self_root_classes
    /\ UNCHANGED <<tables, self_graph, self_reverse_graph,
                   self_reverse_equivalences, pc, walk>>

TypeInit ==
    /\ self_root_classes = <<>>
    /\ self_root_class_mapping = Empty
    /\ self_graph = Empty
    /\ self_reverse_graph = Empty
    /\ self_equivalences = Empty
    /\ self_reverse_equivalences = Empty
    /\ pc = "load"
    /\ call = NoCall
    /\ result = NoResult
    /\ walk = NoWalk

Init ==
    /\ relations \in SeqsUpTo(RelationRows, MaxRows)
    /\ equivalence_rows = <<>>
    /\ entities = <<>>
    /\ TypeInit

Next ==
    \/ Construct
    \/ \E t \in Terms : InFamplex(t)
    \/ \E t \in Terms, k \in KindArgs : ParentTerms(t, k)
    \/ \E t \in Terms, k \in KindArgs : ChildTerms(t, k)
    \/ \E t \in Terms : RootTerms(t)
    \/ \E t \in Terms, k \in KindArgs : AncestralTerms(t, k)
    \/ \E t \in Terms, k \in KindArgs : DescendantTerms(t, k)
    \/ \E t \in Terms, k \in KindArgs : IndividualMembers(t, k)
    \/ \E t1, t2 \in Terms : Isa(t1, t2)
    \/ \E t1, t2 \in Terms : Partof(t1, t2)
    \/ \E t1, t2 \in Terms : RefinementOf(t1, t2)
    \/ \E t \in Terms : DictRepresentationOf(t)
    \/ \E f \in FplxIds : Equivalences(f)
    \/ AllRootTerms
    \/ Forget

Spec == Init /\ [][Next]_vars

\* The graph built from a small relation table together with the
\* equivalence and entity tables.
InitEq ==
    /\ relations \in SeqsUpTo(EqRelationRows, MaxEqRelRows)
    /\ equivalence_rows \in SeqsUpTo(EquivalenceRows, MaxEquivRows)
    /\ entities \in SeqsUpTo(FplxIds, MaxEntities)
    /\ TypeInit

NextEq ==
    \/ Construct
    \/ \E t \in Terms : InFamplex(t)
    \/ \E t \in Terms : RootTerms(t)
    \/ \E f \in FplxIds : Equivalences(f)
    \/ \E f \in FplxIds, n \in NamespaceArgs : EquivalencesIn(f, n)
    \/ \E t \in ExternalTerms \cup Terms : ReverseEquivalences(t)
    \/ Forget

SpecEq == InitEq /\ [][NextEq]_vars

\* The graph with callers that change the lists handed out to them
InitAlias ==
    /\ relations \in SeqsUpTo(EqRelationRows, MaxAliasRows)
    /\ equivalence_rows \in SeqsUpTo(EquivalenceRows, MaxAliasRows)
    /\ entities = <<>>
    /\ TypeInit

NextAlias ==
    \/ Construct
    \/ \E t \in Terms : RootTerms(t)
    \/ \E f \in FplxIds : Equivalences(f)
    \/ AllRootTerms
    \/ \E t \in Terms, k \in KindArgs : ParentTerms(t, k)
    \/ \E t \in Terms, k \in KindArgs : ChildTerms(t, k)
    \/ CallerMutates
    \/ Forget

SpecAlias == InitAlias /\ [][NextAlias]_vars

\* The graph built from a relation table that csv.reader delivered with
\* rows of any length.
InitRows ==
    /\ relations \in SeqsUpTo(EqRelationRows \cup MalformedRows, MaxRows)
    /\ equivalence_rows = <<>>
    /\ entities = <<>>
    /\ TypeInit

NextRows ==
    \/ Construct
    \/ \E t \in Terms : InFamplex(t)
    \/ \E t \in Terms, k \in KindArgs : ParentTerms(t, k)
    \/ \E t \in Terms, k \in KindArgs : ChildTerms(t, k)
    \/ AllRootTerms
    \/ Forget

SpecRows == InitRows /\ [][NextRows]_vars

\* The traversals of the graph built from any relation table, turn by turn.
NextWalk ==
    \/ Construct
    \/ \E t \in Terms, k \in SUBSET Kinds, up \in BOOLEAN : StartWalk(t, k, up)
    \/ StepWalk
    \/ EndWalk

SpecWalk == Init /\ [][NextWalk]_vars

\* The graph built from the rows of a family two levels deep, in any order,
\* and the queries that list terms along its edges.
InitBfs ==
    /\ relations \in SeqsUpTo(BfsRows, MaxBfsRows)
    /\ equivalence_rows = <<>>
    /\ entities = <<>>
    /\ TypeInit

NextBfs ==
    \/ Construct
    \/ \E t \in BfsTerms, k \in KindArgs : ParentTerms(t, k)
    \/ \E t \in BfsTerms, k \in KindArgs : ChildTerms(t, k)
    \/ \E t \in BfsTerms, k \in KindArgs : AncestralTerms(t, k)
    \/ \E t \in BfsTerms, k \in KindArgs : DescendantTerms(t, k)
    \/ \E t \in BfsTerms, k \in KindArgs : IndividualMembers(t, k)
    \/ Forget

SpecBfs == InitBfs /\ [][NextBfs]_vars

(***************************************************************************)
(* What the properties speak of, read off the relation table itself        *)
(* rather than off the constructed maps.                                   *)
(***************************************************************************)
Endpoints == left_set(relations) \cup right_set(relations)

\* the terms reached from S along rows whose relation is in K (S included)
RECURSIVE Closure(_, _)
Closure(S, K) ==
    LET step == S \cup {<<r[4], r[5]>> : r \in {x \in Range(relations) :
                            <<x[1], x[2]>> \in S /\ x[3] \in K}}
    IN IF step = S THEN S ELSE Closure(step, K)

PathExists(A, B, K) == B \in Closure({A}, K)

\* no term lies above itself
Acyclic == \A r \in Range(relations) : <<r[1], r[2]>> \notin Closure({<<r[4], r[5]>>}, Kinds)

RelOps == {"isa", "partof", "refinement_of"}
KindsOf(op) == IF op = "isa" THEN {"isa"} ELSE IF op = "partof" THEN {"partof"} ELSE Kinds

(***************************************************************************)
(* C1  Ancestor/descendant inverse law: for terms A and B in the ontology  *)
(* and every kind set K, B is among ancestral_terms(A, K) exactly when A   *)
(* is among descendant_terms(B, K).  Stated on the outcome of either call. *)
(***************************************************************************)
C1_InverseLaw ==
    /\ (call.op = "ancestral_terms" /\ result.exc = "") =>
          \A B \in Terms : in_famplex(B) =>
              (B \in Range(result.value)
                  <=> call.args[1] \in Range(descendant_terms(B, call.args[2]).value))
    /\ (call.op = "descendant_terms" /\ result.exc = "") =>
          \A A \in Terms : in_famplex(A) =>
              (A \in Range(result.value)
                  <=> call.args[1] \in Range(ancestral_terms(A, call.args[2]).value))

\* ancestral_terms has returned two ancestors, one of them two edges away
C1_Witness ==
    /\ call.op = "ancestral_terms"
    /\ result.exc = ""
    /\ Len(result.value) = 2
    /\ Len(parent_terms(call.args[1], call.args[2]).value) = 1

(***************************************************************************)
(* C2  As claimed: whenever refinement_of(A, B) returns True, isa(A, B)    *)
(* or partof(A, B) returns True.                                           *)
(***************************************************************************)
C2_Original ==
    (call.op = "refinement_of" /\ result.value = TRUE) =>
        (isa(call.args[1], call.args[2]) \/ partof(call.args[1], call.args[2]))

(***************************************************************************)
(* C2  As amended: whenever refinement_of(A, B) returns True, isa(A, B)    *)
(* or partof(A, B) returns True, unless every path from A to B mixes isa   *)
(* and partof edges.                                                       *)
(***************************************************************************)
C2_Amended ==
    (call.op = "refinement_of" /\ result.value = TRUE) =>
        \/ isa(call.args[1], call.args[2])
        \/ partof(call.args[1], call.args[2])
        \/ ~ \E k \in Kinds : PathExists(call.args[1], call.args[2], {k})

\* refinement_of has returned True for two distinct terms joined by a path of one kind
C2_Witness ==
    /\ call.op = "refinement_of"
    /\ result.value = TRUE
    /\ call.args[1] # call.args[2]
    /\ \E k \in Kinds : PathExists(call.args[1], call.args[2], {k})

(***************************************************************************)
(* C3  Whenever isa(A, B) returns True or partof(A, B) returns True,       *)
(* refinement_of(A, B) returns True.                                       *)
(***************************************************************************)
C3_RefinementForward ==
    (call.op \in {"isa", "partof"} /\ result.value = TRUE) =>
        refinement_of(call.args[1], call.args[2])

\* partof has returned True for two distinct terms
C3_Witness ==
    /\ call.op = "partof"
    /\ result.value = TRUE
    /\ call.args[1] # call.args[2]

(***************************************************************************)
(* C4  As claimed: for every pair of terms (A, B), the result of isa,      *)
(* partof and refinement_of equals whether an unconditional forward        *)
(* traversal from A over the kinds of the test reaches B.                  *)
(***************************************************************************)
C4_Original ==
    (call.op \in RelOps) =>
        (result.value <=>
            call.args[2] \in Range(traverse(self_graph, call.args[1], KindsOf(call.op))))

(***************************************************************************)
(* C4  As amended: for every pair of terms (A, B) that are both in the     *)
(* ontology, the result of isa, partof and refinement_of equals whether an *)
(* unconditional forward traversal from A over the kinds of the test       *)
(* reaches B: the common-root pre-filter never changes the answer.         *)
(***************************************************************************)
C4_Amended ==
    (call.op \in RelOps /\ in_famplex(call.args[1]) /\ in_famplex(call.args[2])) =>
        (result.value <=>
            call.args[2] \in Range(traverse(self_graph, call.args[1], KindsOf(call.op))))

\* a relatedness test has returned True for a term that lies under two roots
C4_Witness ==
    /\ call.op \in RelOps
    /\ result.value = TRUE
    /\ call.args[1] # call.args[2]
    /\ Len(root_terms(call.args[1]).value) = 2

(***************************************************************************)
(* C5  Root-set correctness: the root set holds exactly the terms that are *)
(* the target of some relation and the source of none, each once; it is    *)
(* what all_root_terms returns.                                            *)
(***************************************************************************)
C5_RootSet ==
    LET roots == {t \in Terms :
                    /\ \E r \in Range(relations) : <<r[4], r[5]>> = t
                    /\ \A r \in Range(relations) : <<r[1], r[2]>> # t}
    IN /\ pc = "ready" =>
            /\ Range(self_root_classes) = roots
            /\ Len(self_root_classes) = Cardinality(roots)
       /\ call.op = "all_root_terms" =>
            /\ Range(result.value) = roots
            /\ Len(result.value) = Cardinality(roots)

\* all_root_terms has returned a root while another target of a relation is no root
C5_Witness ==
    /\ call.op = "all_root_terms"
    /\ Len(result.value) = 1
    /\ Cardinality(right_set(relations)) = 2

(***************************************************************************)
(* C6  A declared entity without any relation is in the ontology and is    *)
(* its own root: in_famplex('FPLX', id) is True and root_terms('FPLX', id) *)
(* is [('FPLX', id)].                                                      *)
(***************************************************************************)
C6_DeclaredEntity ==
    \A e \in Range(entities) : <<FPLX, e>> \notin Endpoints =>
        /\ (call.op = "in_famplex" /\ call.args[1] = <<FPLX, e>>) =>
                result = Return(TRUE)
        /\ (call.op = "root_terms" /\ call.args[1] = <<FPLX, e>>) =>
                result = Return(<<<<FPLX, e>>>>)

TermOps == {"parent_terms", "child_terms", "root_terms", "ancestral_terms",
            "descendant_terms", "individual_members", "dict_representation"}

C9_RelOfUnknown ==
    (call.op \in RelOps /\ (~in_famplex(call.args[1]) \/ ~in_famplex(call.args[2]))) =>
        result = Return(FALSE)

\* a relatedness test of a known term with an unknown one has returned False
C9_Witness ==
    /\ call.op \in RelOps
    /\ in_famplex(call.args[1])
    /\ call.args[2] \notin Endpoints
    /\ result = Return(FALSE)

(***************************************************************************)
(* C10  equivalences(id) fails with ValueError exactly when id is not a    *)
(* recognized ontology term (a declared entity or a term of the graph);    *)
(* for a recognized term without a row in the equivalence table it returns *)
(* a list.                                                                 *)
(***************************************************************************)
Recognized(f) == f \in Range(entities) \/ in_famplex(<<FPLX, f>>)

C10_EquivalencesRaises ==
    (call.op = "equivalences") =>
        (result.exc = "ValueError" <=> ~Recognized(call.args[1]))

(***************************************************************************)
(* C11  reverse_equivalences is the exact inverse of equivalences: an      *)
(* ontology id F is among reverse_equivalences(ns, id) exactly when        *)
(* (ns, id) is among equivalences(F); when no equivalence row mentions     *)
(* (ns, id) the result is the empty list and nothing is raised.            *)
(***************************************************************************)
Mentioned(t) == \E r \in Range(equivalence_rows) : <<r[1], r[2]>> = t

C11_ReverseInverse ==
    (call.op = "reverse_equivalences") =>
        /\ result.exc = ""
        /\ \A f \in FplxIds :
              f \in Range(result.value)
                  <=> call.args[1] \in Range(equivalences(f).value)
        /\ ~Mentioned(call.args[1]) => result = Return(<<>>)

\* reverse_equivalences has returned one id for a term while the other id
\* has equivalence rows of its own
C11_Witness ==
    /\ call.op = "reverse_equivalences"
    /\ Len(result.value) = 1
    /\ Len(equivalence_rows) = 2
    /\ \E f \in FplxIds : f \notin Range(result.value) /\ equivalences(f).exc = ""

(***************************************************************************)
(* C12  A relation row whose column count is not 5 does not abort the      *)
(* construction of the graph: construction completes, the offending row is *)
(* skipped, and the graph is the one built from the remaining well-formed  *)
(* rows.                                                                   *)
(***************************************************************************)
FiveColumns(r) == Len(r) = 5
WellFormedRows == SelectSeq(relations, FiveColumns)

C12_MalformedRowSkipped ==
    (pc # "load") =>
        /\ pc = "ready"
        /\ self_graph = ForwardGraph(WellFormedRows)
        /\ self_reverse_graph = ReverseGraph(WellFormedRows)
        /\ Range(self_root_classes) = right_set(WellFormedRows) \ left_set(WellFormedRows)
        /\ DOMAIN self_root_class_mapping
               = left_set(WellFormedRows) \cup right_set(WellFormedRows)

(***************************************************************************)
(* C13  Determinism: two graphs constructed from the same relation and     *)
(* equivalence tables give identical results for every query, the order of *)
(* the returned lists included, also when two terms tie under the sort key *)
(* used.  Stated on the outcome of all_root_terms and of root_terms: it is *)
(* the outcome on every graph the constructor can build from the tables.   *)
(***************************************************************************)
Constructions ==
    {[root_classes |-> SortedById(order),
      root_class_mapping |-> RootClassMapping(ReverseGraph(relations), SortedById(order))] :
        order \in SetOrders(right_set(relations) \ left_set(relations))}

C13_Determinism ==
    /\ (call.op = "all_root_terms") =>
          \A g \in Constructions : result.value = g.root_classes
    /\ (call.op = "root_terms" /\ result.exc = "") =>
          \A g \in Constructions : result.value = g.root_class_mapping[call.args[1]]

(***************************************************************************)
(* C14  Leaf law: for every term T in the ontology, every kind set K and   *)
(* every term returned by individual_members(T, K), child_terms of that    *)
(* term under the same K returns the empty list and does not raise.        *)
(***************************************************************************)
C14_LeafLaw ==
    (call.op = "individual_members" /\ result.exc = "") =>
        \A i \in DOMAIN result.value :
            child_terms(result.value[i], call.args[2]) = Return(<<>>)

\* individual_members has returned one of two descendants, the other having
\* a child of its own
C14_Witness ==
    /\ call.op = "individual_members"
    /\ result.exc = ""
    /\ Len(result.value) = 1
    /\ Len(descendant_terms(call.args[1], call.args[2]).value) = 2

(***************************************************************************)
(* C15  Round trip on dict_representation: for every term T in the         *)
(* ontology of an acyclic relation table, the nested structure has, at     *)
(* every level, under key X a list whose entries (child key, relation      *)
(* kind) are exactly the direct child edges of X in the reverse adjacency, *)
(* in the same order, each child expanded in the same way; a term without  *)
(* children maps to the empty list.                                        *)
(***************************************************************************)
ChildEdges(X) == IF X \in DOMAIN self_reverse_graph THEN self_reverse_graph[X] ELSE <<>>

RECURSIVE RepMatches(_)
RepMatches(nested) ==
    LET edges == ChildEdges(nested[1])
    IN /\ Len(nested[2]) = Len(edges)
       /\ \A i \in DOMAIN edges :
             /\ nested[2][i][1][1] = <<edges[i][1], edges[i][2]>>
             /\ nested[2][i][2] = edges[i][3]
             /\ RepMatches(nested[2][i][1])

C15_RoundTrip ==
    (call.op = "dict_representation" /\ Acyclic /\ in_famplex(call.args[1])) =>
        /\ result.exc = ""
        /\ result.value[1] = call.args[1]
        /\ RepMatches(result.value)

\* dict_representation has returned a structure two levels deep
C15_Witness ==
    /\ call.op = "dict_representation"
    /\ Acyclic
    /\ result.exc = ""
    /\ Len(result.value[2]) = 1
    /\ Len(result.value[2][1][1][2]) = 1

(***************************************************************************)
(* C16  root_terms(T) lists each root of T exactly once, in                *)
(* case-insensitive alphabetical order by namespace and then id; a term    *)
(* under two overlapping top-level families gets both, in that order.      *)
(***************************************************************************)
\* the place of a term in the case-insensitive order: namespace, then id
NsIdKey(t) == <<lower(t[1]), lower(t[2])>>
Alphabetical(seq) ==
    \A i, j \in DOMAIN seq : i < j => ~TupleLess(NsIdKey(seq[j]), NsIdKey(seq[i]))
NoRepeats(seq) == \A i, j \in DOMAIN seq : seq[i] = seq[j] => i = j
\* the roots of the table that lie above t, or are t
RootsOf(t) == {r \in right_set(relations) \ left_set(relations) : PathExists(t, r, Kinds)}

C16_RootTermsOrder ==
    (call.op = "root_terms" /\ result.exc = "") =>
        /\ Range(result.value) = RootsOf(call.args[1])
        /\ NoRepeats(result.value)
        /\ Alphabetical(result.value)

\* root_terms has returned two roots of different namespaces for a term
\* that is neither of them
C16_Witness ==
    /\ call.op = "root_terms"
    /\ Len(result.value) = 2
    /\ call.args[1] \notin Range(result.value)
    /\ TupleLess(NsIdKey(result.value[1]), NsIdKey(result.value[2]))

(***************************************************************************)
(* Edges and distances of the relation table, in the direction of a query: *)
(* upward (source to target of a row) for ancestral_terms and              *)
(* parent_terms, downward for descendant_terms and child_terms.            *)
(***************************************************************************)
ListOps == {"ancestral_terms", "descendant_terms"}
Upward(op) == op \in {"ancestral_terms", "parent_terms"}

Edge(x, y, K, up) ==
    \E r \in Range(relations) :
        /\ r[3] \in K
        /\ IF up THEN <<r[1], r[2]>> = x /\ <<r[4], r[5]>> = y
                 ELSE <<r[4], r[5]>> = x /\ <<r[1], r[2]>> = y

\* the terms at most n edges away from T
RECURSIVE Within(_, _, _, _)
Within(T, K, up, n) ==
    IF n = 0 THEN {T}
    ELSE LET W == Within(T, K, up, n - 1)
         IN W \cup {y \in Endpoints : \E x \in W : Edge(x, y, K, up)}

\* the terms one or more edges away from T
Reachable(T, K, up) ==
    {y \in Endpoints : \E x \in Within(T, K, up, Cardinality(Endpoints)) : Edge(x, y, K, up)}

\* the least number of edges from T to x
Depth(T, x, K, up) ==
    CHOOSE n \in 0..Cardinality(Endpoints) :
        /\ x \in Within(T, K, up, n)
        /\ \A m \in 0..(n - 1) : x \notin Within(T, K, up, m)

\* the place, in the visiting order T followed by listed, of the first term
\* that has an edge to x
Via(T, listed, x, K, up) ==
    LET visit == <<T>> \o listed
    IN CHOOSE i \in DOMAIN visit :
           /\ Edge(visit[i], x, K, up)
           /\ \A m \in 1..(i - 1) : ~Edge(visit[m], x, K, up)

(***************************************************************************)
(* C17  As claimed: ancestral_terms and descendant_terms list the terms of *)
(* a smaller breadth-first depth before those of a larger one, and all     *)
(* terms of the same depth in case-insensitive sorted (namespace, id)      *)
(* order.                                                                  *)
(***************************************************************************)
C17_Original ==
    (call.op \in ListOps /\ result.exc = "") =>
        LET T == call.args[1]
            K == Resolve(call.args[2])
            up == Upward(call.op)
            v == result.value
        IN \A i, j \in DOMAIN v : i < j =>
               /\ Depth(T, v[i], K, up) <= Depth(T, v[j], K, up)
               /\ Depth(T, v[i], K, up) = Depth(T, v[j], K, up) =>
                      ~TupleLess(NsIdKey(v[j]), NsIdKey(v[i]))

(***************************************************************************)
(* C17  As amended: ancestral_terms and descendant_terms list the terms of *)
(* a smaller breadth-first depth before those of a larger one; terms first *)
(* reached from the same term are in case-insensitive sorted (namespace,   *)
(* id) order, and terms first reached from different terms come in the     *)
(* order of those terms, so a level as a whole need not be sorted.         *)
(***************************************************************************)
C17_Amended ==
    (call.op \in ListOps /\ result.exc = "") =>
        LET T == call.args[1]
            K == Resolve(call.args[2])
            up == Upward(call.op)
            v == result.value
        IN \A i, j \in DOMAIN v : i < j =>
               /\ Depth(T, v[i], K, up) <= Depth(T, v[j], K, up)
               /\ Via(T, v, v[i], K, up) <= Via(T, v, v[j], K, up)
               /\ Via(T, v, v[i], K, up) = Via(T, v, v[j], K, up) =>
                      ~TupleLess(NsIdKey(v[j]), NsIdKey(v[i]))

\* descendant_terms has returned two terms of depth two that were reached
\* from different terms and are not in sorted order
C17_Witness ==
    /\ call.op = "descendant_terms"
    /\ Len(result.value) = 4
    /\ TupleLess(NsIdKey(result.value[4]), NsIdKey(result.value[3]))
    /\ Via(call.args[1], result.value, result.value[3], Resolve(call.args[2]), FALSE)
          < Via(call.args[1], result.value, result.value[4], Resolve(call.args[2]), FALSE)

(***************************************************************************)
(* C18  As claimed: for every term T in the ontology and every kind set K, *)
(* ancestral_terms(T, K) never contains T, contains no term twice, and     *)
(* contains exactly the terms reachable from T by one or more forward      *)
(* edges of kinds in K, in non-decreasing order of shortest-path distance; *)
(* the same for descendant_terms over the reverse edges.                   *)
(***************************************************************************)
NearestFirst(T, v, K, up) ==
    \A i, j \in DOMAIN v : i < j => Depth(T, v[i], K, up) <= Depth(T, v[j], K, up)

C18_Original ==
    (call.op \in ListOps /\ result.exc = "") =>
        LET T == call.args[1]
            K == Resolve(call.args[2])
            up == Upward(call.op)
        IN /\ T \notin Range(result.value)
           /\ NoRepeats(result.value)
           /\ Range(result.value) = Reachable(T, K, up)
           /\ NearestFirst(T, result.value, K, up)

(***************************************************************************)
(* C18  As amended: for every term T in the ontology and every kind set K, *)
(* ancestral_terms(T, K) never contains T, contains no term twice, and     *)
(* contains exactly the terms other than T that are reachable from T by    *)
(* one or more forward edges of kinds in K, in non-decreasing order of     *)
(* shortest-path distance; the same for descendant_terms over the reverse  *)
(* edges.                                                                  *)
(***************************************************************************)
C18_Amended ==
    (call.op \in ListOps /\ result.exc = "") =>
        LET T == call.args[1]
            K == Resolve(call.args[2])
            up == Upward(call.op)
        IN /\ T \notin Range(result.value)
           /\ NoRepeats(result.value)
           /\ Range(result.value) = Reachable(T, K, up) \ {T}
           /\ NearestFirst(T, result.value, K, up)

\* ancestral_terms has returned the other term above a term that lies on a
\* cycle of edges of the kinds asked for
C18_Witness ==
    /\ call.op = "ancestral_terms"
    /\ result.exc = ""
    /\ Len(result.value) = 1
    /\ call.args[1] \in Reachable(call.args[1], Resolve(call.args[2]), TRUE)

(***************************************************************************)
(* C19  For every term T in the ontology and every kind filter,            *)
(* parent_terms(T) and child_terms(T) list the direct parents and children *)
(* of T in case-insensitive alphabetical order, first by namespace and     *)
(* then by id, whatever the order of the rows in the relation table.       *)
(***************************************************************************)
EdgeOps == {"parent_terms", "child_terms"}

C19_EdgeOrder ==
    (call.op \in EdgeOps /\ result.exc = "") =>
        /\ Alphabetical(result.value)
        /\ Range(result.value) =
              {y \in Endpoints :
                  Edge(call.args[1], y, Resolve(call.args[2]), Upward(call.op))}

\* child_terms has returned two children in the case-insensitive order,
\* which is neither the order of their rows nor the order of the code points
C19_Witness ==
    /\ call.op = "child_terms"
    /\ Len(result.value) = 2
    /\ TupleLess(NsIdKey(result.value[1]), NsIdKey(result.value[2]))
    /\ TupleLess(result.value[2], result.value[1])
    /\ \E i, j \in DOMAIN relations :
          /\ i < j
          /\ <<relations[i][1], relations[i][2]>> = result.value[2]
          /\ <<relations[j][1], relations[j][2]>> = result.value[1]

TableRoots == right_set(relations) \ left_set(relations)
TableLeaves == left_set(relations) \ right_set(relations)

C21_AbsentMeansEmpty ==
    /\ (call.op = "parent_terms" /\ call.args[1] \in TableRoots) =>
          result = Return(<<>>)
    /\ (call.op = "child_terms" /\ call.args[1] \in TableLeaves) =>
          result = Return(<<>>)

\* parent_terms has returned the empty list for a root, under the kinds of
\* the row that makes it a root
C21_Witness ==
    /\ call.op = "parent_terms"
    /\ call.args[1] \in TableRoots
    /\ result = Return(<<>>)
    /\ \E r \in Range(relations) :
          <<r[4], r[5]>> = call.args[1] /\ r[3] \in Resolve(call.args[2])

(***************************************************************************)
(* C22  Root mapping content: for every term T in the ontology,            *)
(* root_terms(T) is non-empty and is exactly the set of root terms R such  *)
(* that R = T or R is among ancestral_terms(T, {isa, partof}); in          *)
(* particular root_terms(R) = [R] for every root R, and every element of   *)
(* root_terms(T) is a member of the root set.                              *)
(***************************************************************************)
C22_RootMappingContent ==
    /\ (call.op = "root_terms" /\ result.exc = "") =>
          LET T == call.args[1]
              above == Range(ancestral_terms(T, Kinds).value)
          IN /\ result.value # <<>>
             /\ Range(result.value) =
                   {R \in Range(self_root_classes) : R = T \/ R \in above}
             /\ Range(result.value) \subseteq TableRoots
    /\ (call.op = "root_terms" /\ call.args[1] \in TableRoots) =>
          result = Return(<<call.args[1]>>)

\* root_terms has returned the one root of a term that has a second
\* ancestor, which is no root
C22_Witness ==
    /\ call.op = "root_terms"
    /\ Len(result.value) = 1
    /\ call.args[1] \notin Range(result.value)
    /\ Len(ancestral_terms(call.args[1], Kinds).value) = 2

(***************************************************************************)
(* C23  Relation-kind filter: for every term T in the ontology,            *)
(* parent_terms(T, K) is exactly the sub-list of the forward adjacency of  *)
(* T whose edge kind is in K, in adjacency order; no filter (None) gives   *)
(* the same as K = {isa, partof}; the same for child_terms over the        *)
(* reverse adjacency.                                                      *)
(***************************************************************************)
Adjacency(t, up) ==
    LET map == IF up THEN self_graph ELSE self_reverse_graph
    IN IF t \in DOMAIN map THEN map[t] ELSE <<>>

\* the terms of the edges of a kind in K, in the order of the edges
RECURSIVE OfKinds(_, _)
OfKinds(edges, K) ==
    IF edges = <<>> THEN <<>>
    ELSE IF Head(edges)[3] \in K
    THEN <<<<Head(edges)[1], Head(edges)[2]>>>> \o OfKinds(Tail(edges), K)
    ELSE OfKinds(Tail(edges), K)

C23_KindFilter ==
    (call.op \in EdgeOps /\ result.exc = "") =>
        LET T == call.args[1]
            up == Upward(call.op)
        IN IF call.args[2] = None
           THEN result.value = OfKinds(Adjacency(T, up), Kinds)
           ELSE result.value = OfKinds(Adjacency(T, up), call.args[2])

\* parent_terms without a filter has returned both parents of a term, one
\* by an isa edge and one by a partof edge
C23_Witness ==
    /\ call.op = "parent_terms"
    /\ call.args[2] = None
    /\ Len(result.value) = 2
    /\ Len(parent_terms(call.args[1], {"isa"}).value) = 1
    /\ Len(parent_terms(call.args[1], {"partof"}).value) = 1

(***************************************************************************)
(* C24  For every term T in the ontology and kind set K,                   *)
(* individual_members(T, K) contains every term of descendant_terms(T, K)  *)
(* that has no children under K, each exactly once, in case-insensitive    *)
(* (namespace, id) order rather than traversal order; T itself is never    *)
(* included, so a term without descendants yields the empty list.          *)
(***************************************************************************)
C24_Members ==
    (call.op = "individual_members" /\ result.exc = "") =>
        LET T == call.args[1]
            K == Resolve(call.args[2])
            below == Range(descendant_terms(T, call.args[2]).value)
        IN /\ Range(result.value) =
                 {d \in below : ~ \E y \in Endpoints : Edge(d, y, K, FALSE)}
           /\ NoRepeats(result.value)
           /\ Alphabetical(result.value)
           /\ T \notin Range(result.value)
           /\ below = {} => result.value = <<>>

\* individual_members has returned two members in sorted order, which the
\* traversal meets the other way round
C24_Witness ==
    /\ call.op = "individual_members"
    /\ Len(result.value) = 2
    /\ LET below == descendant_terms(call.args[1], call.args[2]).value
       IN \E i, j \in DOMAIN below :
              /\ i < j
              /\ below[i] = result.value[2]
              /\ below[j] = result.value[1]

(***************************************************************************)
(* C25  Namespace filter of equivalences: for every ontology id F with     *)
(* equivalences and every namespace container N, equivalences(F,           *)
(* namespaces=N) is the sub-list of equivalences(F) whose namespace is in  *)
(* N, in the same order; with namespaces=None nothing is filtered; the     *)
(* stored equivalence list is not modified by the filtered call.           *)
(***************************************************************************)
RECURSIVE InNamespaces(_, _)
InNamespaces(list, N) ==
    IF list = <<>> THEN <<>>
    ELSE IF Head(list)[1] \in N
    THEN <<Head(list)>> \o InNamespaces(Tail(list), N)
    ELSE InNamespaces(Tail(list), N)

C25_NamespaceFilter ==
    (call.op = "equivalences_in" /\ result.exc = "") =>
        LET F == call.args[1]
            N == call.args[2]
        IN /\ IF N = NoneNs
              THEN result.value = equivalences(F).value
              ELSE result.value = InNamespaces(equivalences(F).value, N)
           /\ self_equivalences[F] = EquivalenceMap(equivalence_rows)[F]

\* the filtered call has returned one of the two equivalences of an id
C25_Witness ==
    /\ call.op = "equivalences_in"
    /\ call.args[2] # NoneNs
    /\ Len(result.value) = 1
    /\ Len(equivalences(call.args[1]).value) = 2

(***************************************************************************)
(* C26  dict_representation(T) terminates with a finite nested structure   *)
(* for every term T in the ontology whenever the loaded relations are      *)
(* acyclic; its recursion has no visited-set guard, so termination relies  *)
(* only on the acyclicity of the edges below T: it returns when no term at *)
(* or below T lies below itself, and does not end (Python raises           *)
(* RecursionError) when one does.                                          *)
(***************************************************************************)
CycleBelow(T) ==
    \E x \in Within(T, Kinds, FALSE, Cardinality(Endpoints)) :
        x \in Reachable(x, Kinds, FALSE)

C26_Terminates ==
    (call.op = "dict_representation" /\ in_famplex(call.args[1])) =>
        /\ Acyclic => result.exc = ""
        /\ ~CycleBelow(call.args[1]) => result.exc = ""
        /\ CycleBelow(call.args[1]) => result.exc = "RecursionError"

\* dict_representation has returned the children of a term of a table that
\* has a cycle elsewhere
C26_Witness ==
    /\ call.op = "dict_representation"
    /\ in_famplex(call.args[1])
    /\ ~Acyclic
    /\ result.exc = ""
    /\ result.value[2] # <<>>

(***************************************************************************)
(* C27  The breadth-first traversal terminates on every finite relation    *)
(* table, tables with cycles included: each term is enqueued at most once  *)
(* (it is marked visited when enqueued) and yielded at most once.  At      *)
(* every turn the nodes ever enqueued are distinct and are the visited     *)
(* set, each is either still queued or already yielded, and there are no   *)
(* more of them than terms; every turn yields one of them, so the loop     *)
(* ends after at most that many turns, with what traverse gives.           *)
(***************************************************************************)
C27_TraversalBounded ==
    walk.active =>
        /\ NoRepeats(walk.enqueued)
        /\ NoRepeats(walk.yielded)
        /\ Range(walk.enqueued) = walk.visited
        /\ Range(walk.yielded) \cup Range(walk.queue) = walk.visited
        /\ Len(walk.yielded) + Len(walk.queue) = Len(walk.enqueued)
        /\ Len(walk.enqueued) <= Cardinality(Endpoints \cup {walk.enqueued[1]})
        /\ walk.queue = <<>> =>
              walk.yielded = traverse(walk.graph, walk.enqueued[1], walk.relation_types)

\* a traversal has ended after yielding a node that has an edge back to the
\* source
C27_Witness ==
    /\ walk.active
    /\ walk.queue = <<>>
    /\ Len(walk.yielded) >= 2
    /\ \E i \in 2..Len(walk.yielded) :
          /\ walk.yielded[i] \in DOMAIN walk.graph
          /\ \E j \in DOMAIN walk.graph[walk.yielded[i]] :
                LET e == walk.graph[walk.yielded[i]][j]
                IN <<e[1], e[2]>> = walk.yielded[1] /\ e[3] \in walk.relation_types

(***************************************************************************)
(* C28  Relatedness agrees with the ancestor query: for all terms A and B  *)
(* in the ontology and K in {{isa}, {partof}, {isa, partof}}, the          *)
(* relatedness test for the kinds K returns True if and only if A = B or B *)
(* is among ancestral_terms(A, K); in particular isa(A, A), partof(A, A)   *)
(* and refinement_of(A, A) return True for every term A in the ontology,   *)
(* although ancestral_terms(A, K) never contains A.                        *)
(***************************************************************************)
C28_RelatednessIsAncestry ==
    (call.op \in RelOps /\ in_famplex(call.args[1]) /\ in_famplex(call.args[2])) =>
        LET A == call.args[1]
            B == call.args[2]
            above == ancestral_terms(A, KindsOf(call.op))
        IN /\ result.exc = ""
           /\ above.exc = ""
           /\ result.value <=> (A = B \/ B \in Range(above.value))
           /\ A = B => (result.value = TRUE /\ A \notin Range(above.value))

\* partof has returned True for a term and itself, the term having an
\* ancestor by a partof edge
C28_Witness ==
    /\ call.op = "partof"
    /\ call.args[1] = call.args[2]
    /\ result.value = TRUE
    /\ ancestral_terms(call.args[1], {"partof"}).value # <<>>

(***************************************************************************)
(* C29  Forward and reverse adjacency mirror each other: for all terms A   *)
(* and B in the ontology and every kind set K, B occurs in                 *)
(* parent_terms(A, K) exactly as many times as A occurs in                 *)
(* child_terms(B, K); in particular B is a parent of A if and only if A is *)
(* a child of B, and the two adjacency maps hold the same number of edges. *)
(***************************************************************************)
Count(x, seq) == Cardinality({i \in DOMAIN seq : seq[i] = x})

RECURSIVE EdgeCount(_, _)
EdgeCount(map, S) ==
    IF S = {} THEN 0
    ELSE LET n == CHOOSE n \in S : TRUE
         IN Len(map[n]) + EdgeCount(map, S \ {n})

C29_Mirror ==
    /\ (call.op = "parent_terms" /\ in_famplex(call.args[1])) =>
          /\ result.exc = ""
          /\ \A B \in Terms : in_famplex(B) =>
                /\ child_terms(B, call.args[2]).exc = ""
                /\ Count(B, result.value)
                      = Count(call.args[1], child_terms(B, call.args[2]).value)
    /\ (call.op = "child_terms" /\ in_famplex(call.args[1])) =>
          /\ result.exc = ""
          /\ \A A \in Terms : in_famplex(A) =>
                /\ parent_terms(A, call.args[2]).exc = ""
                /\ Count(A, result.value)
                      = Count(call.args[1], parent_terms(A, call.args[2]).value)
    /\ pc = "ready" =>
          EdgeCount(self_graph, DOMAIN self_graph)
              = EdgeCount(self_reverse_graph, DOMAIN self_reverse_graph)

\* parent_terms has returned the same parent twice, once for each kind of edge
C29_Witness ==
    /\ call.op = "parent_terms"
    /\ Len(result.value) = 2
    /\ result.value[1] = result.value[2]
    /\ call.args[1] # result.value[1]
    /\ Len(parent_terms(call.args[1], {"isa"}).value) = 1

(***************************************************************************)
(* C30  Query results are independent of what a caller does with earlier   *)
(* results: after a caller appends to, removes from or reorders a list     *)
(* returned by root_terms, equivalences, all_root_terms, parent_terms or   *)
(* child_terms, the same query asked again returns what it returned        *)
(* before, i.e. no query hands out a reference to a list of the graph.     *)
(***************************************************************************)
Requery(op, args) ==
    CASE op = "root_terms" -> root_terms(args[1])
      [] op = "equivalences" -> equivalences(args[1])
      [] op = "all_root_terms" -> Return(self_root_classes)
      [] op = "parent_terms" -> parent_terms(args[1], args[2])
      [] op = "child_terms" -> child_terms(args[1], args[2])

C30_Independent ==
    call.op = "mutate" =>
        Requery(call.args[1], call.args[2]) = Return(call.args[3])
====
